---- MODULE Spec2Model ----
(***************************************************************************)
(* The latex-convert edge function (supabase/functions/latex-convert/      *)
(* index.ts) as a state machine: the first handler (lines 12-163), and the *)
(* steps in which the second (lines 176-297) differs from it.              *)
(* The browser component that invokes the function (unnamed/part_000) is   *)
(* composed with it in SpecUI.                                             *)
(*                                                                         *)
(* A handler instance walks one request through the code's suspension      *)
(* points: the synchronous prefix (preflight, format negotiation, API key  *)
(* check), `await req.json()`, `await fetch(...)`, and the reads of the    *)
(* compiler's body (`text()` on failure, `blob()`/`arrayBuffer()` on       *)
(* success).  The client and the external compiler are the environment.    *)
(*                                                                         *)
(* Strings that can be long (the latex source, the compiler's error text)  *)
(* are kept in a compact form: a record [head, fill] standing for the      *)
(* characters of `head` followed by `fill` copies of the character "x".    *)
(***************************************************************************)
EXTENDS Integers, Sequences, FiniteSets, TLC

\* ------------------------------------------------------------------ bounds

\* Number of characters of a long string that are spelled out in `head`.
MaxHead == 1
\* Longest compiler success body (in bytes) drawn from the byte alphabet.
MaxBody == 3
\* Most requests with the key that a burst forwards.
MaxBurst == 61
\* Longest latex source spelled out over the characters of SourceChars.
MaxSource == 2

\* -------------------------------------------------------- program constants

\* index.ts:57  latex.length > 100000
MaxLatexLength == 100000
\* index.ts:96  errorText.substring(0, 500)
DetailsLimit == 500
\* API_EXAMPLES.md:203  Max 60 requests per minute per API key
RateLimit == 60
\* part_000:12-40  the length of DEFAULT_LATEX
DefaultLength == 485

\* --------------------------------------------------------------- JS values

\* What Headers.get / URLSearchParams.get return for a name that is absent.
NULL == "<null>"
\* What Deno.env.get returns for a variable that is not set.
UNDEFINED == "<undefined>"

Min(a, b) == IF a < b THEN a ELSE b

\* All sequences over S of length at most n.
RECURSIVE SeqsUpTo(_, _)
SeqsUpTo(S, n) ==
    IF n = 0 THEN {<<>>}
    ELSE LET shorter == SeqsUpTo(S, n - 1)
         IN  shorter \cup {Append(s, c) : s \in {t \in shorter : Len(t) = n - 1}, c \in S}

\* ------------------------------------------------------------ long strings

Str(head, fill) == [head |-> head, fill |-> fill]
EmptyStr == Str(<<>>, 0)

\* String.prototype.length
StrLen(s) == Len(s.head) + s.fill

\* The character at 1-based position k of s.
CharAt(s, k) == IF k <= Len(s.head) THEN s.head[k] ELSE "x"

\* Mutant: the text is passed on whole.
SubstringWhole(s, n) == s

\* String.prototype.substring(0, n)
Substring0(s, n) ==
    IF n <= Len(s.head)
    THEN Str(SubSeq(s.head, 1, n), 0)
    ELSE Str(s.head, Min(s.fill, n - Len(s.head)))

\* ---------------------------------------------------------------- encodings

\* The UTF-16 code unit of each character the model names: letters, the
\* characters special to LaTeX and to URLs, a line feed, U+00E9, U+20AC, and the
\* two halves of the surrogate pair of U+1F600.
CharCodes ==
    ("a" :> 97) @@ ("x" :> 120) @@ ("!" :> 33) @@ (" " :> 32) @@ ("#" :> 35)
        @@ ("$" :> 36) @@ ("%" :> 37) @@ ("&" :> 38) @@ ("+" :> 43) @@ ("=" :> 61)
        @@ ("\\" :> 92) @@ ("^" :> 94) @@ ("_" :> 95) @@ ("{" :> 123) @@ ("}" :> 125)
        @@ ("~" :> 126) @@ ("<LF>" :> 10) @@ ("<E9>" :> 233) @@ ("<20AC>" :> 8364)
        @@ ("<D83D>" :> 55357) @@ ("<DE00>" :> 56832)

\* The code units of a string's spelled-out characters.
CodeUnits(head) == [k \in 1..Len(head) |-> CharCodes[head[k]]]

IsHighSurrogate(u) == u >= 55296 /\ u <= 56319
IsLowSurrogate(u) == u >= 56320 /\ u <= 57343

\* Conversion of a JS string to a USVString (Web IDL): the code points of the
\* string, with U+FFFD in place of every surrogate that is not part of a pair.
RECURSIVE ToUSVString(_)
ToUSVString(units) ==
    IF units = <<>> THEN <<>>
    ELSE IF IsHighSurrogate(units[1]) /\ Len(units) >= 2 /\ IsLowSurrogate(units[2])
    THEN <<65536 + (units[1] - 55296) * 1024 + (units[2] - 56320)>>
            \o ToUSVString(SubSeq(units, 3, Len(units)))
    ELSE IF IsHighSurrogate(units[1]) \/ IsLowSurrogate(units[1])
    THEN <<65533>> \o ToUSVString(Tail(units))
    ELSE <<units[1]>> \o ToUSVString(Tail(units))

\* The UTF-8 bytes of a code point, and of a sequence of code points.
Utf8Bytes(c) ==
    IF c < 128 THEN <<c>>
    ELSE IF c < 2048 THEN <<192 + (c \div 64), 128 + (c % 64)>>
    ELSE IF c < 65536
    THEN <<224 + (c \div 4096), 128 + ((c \div 64) % 64), 128 + (c % 64)>>
    ELSE <<240 + (c \div 262144), 128 + ((c \div 4096) % 64), 128 + ((c \div 64) % 64),
           128 + (c % 64)>>

RECURSIVE Utf8Encode(_)
Utf8Encode(points) ==
    IF points = <<>> THEN <<>> ELSE Utf8Bytes(points[1]) \o Utf8Encode(Tail(points))

\* index.ts:71  new Blob([latex]): the string as a USVString, UTF-8 encoded.  The
\* fill is one byte per "x".
BlobBytes(s) == [bytes |-> Utf8Encode(ToUSVString(CodeUnits(s.head))), fill |-> s.fill]

\* The application/x-www-form-urlencoded serializer (URL standard), on bytes:
\* letters, digits and * - . _ stay, a space becomes +, every other byte is
\* written %XX.
UrlSafe(b) == b \in (48..57) \cup (65..90) \cup (97..122) \cup {42, 45, 46, 95}
HexDigit(n) == IF n < 10 THEN 48 + n ELSE 55 + n

\* Mutant: the bytes are written as they are.
FormEncodeByteRaw(b) == <<b>>

FormEncodeByte(b) ==
    IF b = 32 THEN <<43>>
    ELSE IF UrlSafe(b) THEN <<b>>
    ELSE <<37, HexDigit(b \div 16), HexDigit(b % 16)>>

RECURSIVE FormEncode(_)
FormEncode(bytes) ==
    IF bytes = <<>> THEN <<>> ELSE FormEncodeByte(bytes[1]) \o FormEncode(Tail(bytes))

\* "text", "command" and "pdflatex" in ASCII.
AsciiText == <<116, 101, 120, 116>>
AsciiCommand == <<99, 111, 109, 109, 97, 110, 100>>
AsciiPdflatex == <<112, 100, 102, 108, 97, 116, 101, 120>>

\* index.ts:229-232 and 235  new URLSearchParams({ text: latex, command:
\* 'pdflatex' }).toString(): both values as USVStrings, UTF-8 encoded and
\* serialized name=value, joined by &.  The result is kept as the ASCII codes
\* of `head`, then `fill` times "x", then the codes of `tail`.
UrlSearchParamsToString(s) ==
    [head |-> AsciiText \o <<61>> \o FormEncode(Utf8Encode(ToUSVString(CodeUnits(s.head)))),
     fill |-> s.fill,
     tail |-> <<38>> \o AsciiCommand \o <<61>> \o FormEncode(AsciiPdflatex)]

\* The URL parser on what follows the "?" of fetch's argument (URL standard):
\* tabs and newlines are dropped, a # ends the query, and the code points of
\* the query percent-encode set are written %XX.
RECURSIVE UrlQueryCodes(_)
UrlQueryCodes(codes) ==
    IF codes = <<>> \/ codes[1] = 35 THEN <<>>
    ELSE IF codes[1] \in {9, 10, 13} THEN UrlQueryCodes(Tail(codes))
    ELSE IF codes[1] < 33 \/ codes[1] > 126 \/ codes[1] \in {34, 39, 60, 62}
    THEN <<37, HexDigit(codes[1] \div 16), HexDigit(codes[1] % 16)>>
            \o UrlQueryCodes(Tail(codes))
    ELSE <<codes[1]>> \o UrlQueryCodes(Tail(codes))

HasFragment(codes) == \E k \in 1..Len(codes) : codes[k] = 35

UrlQuery(q) ==
    [head |-> UrlQueryCodes(q.head),
     fill |-> IF HasFragment(q.head) THEN 0 ELSE q.fill,
     tail |-> IF HasFragment(q.head) THEN <<>> ELSE UrlQueryCodes(q.tail)]

\* ------------------------------------------------------------- JSON values

JUndefined == [t |-> "undefined"]
JNull == [t |-> "null"]
JBool(b) == [t |-> "boolean", b |-> b]
JNum(n) == [t |-> "number", n |-> n]
JStr(s) == [t |-> "string", s |-> s]
\* An object without a latex property, and one with it.
JObjEmpty == [t |-> "object"]
JObjLatex(v) == [t |-> "object", latex |-> v]

\* The typeof operator.
TypeOf(v) == IF v.t = "null" THEN "object" ELSE v.t

\* ToBoolean: what `!v` negates.
Truthy(v) ==
    CASE v.t = "undefined" -> FALSE
      [] v.t = "null" -> FALSE
      [] v.t = "boolean" -> v.b
      [] v.t = "number" -> v.n # 0
      [] v.t = "string" -> StrLen(v.s) > 0
      [] OTHER -> TRUE

\* ----------------------------------------------------------- the requests

LatexChars == {"a", "\\"}
LatexFills == {0, MaxLatexLength - 1, MaxLatexLength, MaxLatexLength + 1}
LatexStrings == {Str(h, f) : h \in SeqsUpTo(LatexChars, MaxHead), f \in LatexFills}

LatexValues ==
    {JNull, JBool(FALSE), JBool(TRUE), JNum(0), JNum(5), JObjEmpty}
        \cup {JStr(s) : s \in LatexStrings}

\* A request body: text that is not JSON, or a JSON value.
BodyText == [kind |-> "text"]
BodyJson(v) == [kind |-> "json", value |-> v]
Bodies ==
    {BodyText}
        \cup {BodyJson(v) : v \in {JNull, JNum(5), JObjEmpty}}
        \cup {BodyJson(JObjLatex(v)) : v \in LatexValues}

Methods == {"OPTIONS", "POST"}
SecretValue == "s3cret"
\* Values of the x-api-key header (NULL: no such header).
ApiKeys == {NULL, "", SecretValue, "guess"}
\* Values of the format query parameter (NULL: no such parameter).
Formats == {NULL, "binary", "json"}
\* The Accept header: absent, or its comma-separated list of media ranges.
NoAccept == [present |-> FALSE, ranges |-> <<>>]
Accept(ranges) == [present |-> TRUE, ranges |-> ranges]
Accepts ==
    {NoAccept, Accept(<<"application/pdf">>), Accept(<<"application/pdf", "*/*">>),
     Accept(<<"application/json">>)}

Requests ==
    [method : Methods, key : ApiKeys, format : Formats, accept : Accepts, body : Bodies]

\* Values of the LATEX_API_KEY environment variable.
Secrets == {UNDEFINED, SecretValue}

\* ---------------------------------------------------- the external compiler

Bytes == {0, 37, 128, 255}
\* "%PDF", "%PDF-" and the start of an HTML page.
PdfMagic == <<37, 80, 68, 70>>
CompilerBodies ==
    SeqsUpTo(Bytes, MaxBody) \cup {PdfMagic, PdfMagic \o <<45>>, <<60, 104>>}

ErrorFills == {0, DetailsLimit - 1, DetailsLimit, DetailsLimit + 1}
ErrorTexts == {Str(h, f) : h \in SeqsUpTo({"!"}, MaxHead), f \in ErrorFills}

\* Response.ok
Ok(status) == status >= 200 /\ status <= 299

\* What fetch settles with: a rejection, or a response with a status and a body.
\* The body is what blob() yields (bytes) and what text() yields (text); the
\* handler reads the bytes of a success and the text of a failure only.
\* `complete` is FALSE when the body's stream breaks before its end, so that
\* reading it rejects.
FetchReject == [kind |-> "reject"]
FetchResponse(status, bytes, text, complete) ==
    [kind |-> "response", status |-> status, bytes |-> bytes, text |-> text,
     complete |-> complete]
NoFetch == [kind |-> "none"]
FetchOutcomes ==
    {FetchReject}
        \cup {FetchResponse(200, b, EmptyStr, TRUE) : b \in CompilerBodies}
        \cup {FetchResponse(st, <<>>, e, TRUE) : st \in {400, 500}, e \in ErrorTexts}
        \cup {FetchResponse(st, <<>>, EmptyStr, FALSE) : st \in {200, 400, 500}}

\* ---------------------------------------------------------- the responses

\* index.ts:3-6.  The Allow-Headers value is kept as the list of its names.
corsHeaders ==
    ("Access-Control-Allow-Origin" :> "*")
        @@ ("Access-Control-Allow-Headers" :>
                <<"authorization", "x-client-info", "apikey", "content-type", "x-api-key">>)

\* Mutant: the CORS headers are not spread into the JSON responses' headers.
jsonHeadersNoCors == ("Content-Type" :> "application/json")

\* { ...corsHeaders, 'Content-Type': 'application/json' }
jsonHeaders == corsHeaders @@ ("Content-Type" :> "application/json")

\* { ...corsHeaders, 'Content-Type': 'application/pdf', 'Content-Disposition': ... }
pdfHeaders ==
    corsHeaders
        @@ ("Content-Type" :> "application/pdf")
        @@ ("Content-Disposition" :> "attachment; filename=\"document.pdf\"")

NullBody == [kind |-> "null"]
JsonBody(json) == [kind |-> "json", json |-> json]
BytesBody(bytes) == [kind |-> "bytes", bytes |-> bytes]

\* new Response(body, { status, headers }); the status defaults to 200.
Response(body, status, headers) == [status |-> status, headers |-> headers, body |-> body]

\* A short message (an exception's message), kept as one piece.
Msg(m) == Str(<<m>>, 0)

\* index.ts:15
PreflightResponse == Response(NullBody, 200, corsHeaders)

\* index.ts:31-37
UnauthorizedResponse ==
    Response(JsonBody([error |-> "Unauthorized: Invalid API key"]), 401, jsonHeaders)

\* index.ts:47-53
LatexRequiredResponse ==
    Response(JsonBody([error |-> "Invalid request: latex field is required"]), 400, jsonHeaders)

\* index.ts:58-64
TooLargeResponse ==
    Response(JsonBody([error |-> "LaTeX document too large (max 100KB)"]), 400, jsonHeaders)

\* index.ts:93-102
CompilationFailedResponse(errorText) ==
    Response(
        JsonBody([error |-> "LaTeX compilation failed. Please check your LaTeX syntax.",
                  details |-> Substring0(errorText, DetailsLimit)]),
        400, jsonHeaders)

\* Mutant: the catch answers without the exception's message.
InternalErrorResponseNoMessage(message) ==
    Response(JsonBody([error |-> "Internal server error", details |-> Msg("")]),
             500, jsonHeaders)

\* index.ts:149-161
InternalErrorResponse(message) ==
    Response(JsonBody([error |-> "Internal server error", details |-> Msg(message)]),
             500, jsonHeaders)

\* ------------------------------------------------------------------ base64

B64Alphabet ==
    <<"A", "B", "C", "D", "E", "F", "G", "H", "I", "J", "K", "L", "M", "N", "O", "P",
      "Q", "R", "S", "T", "U", "V", "W", "X", "Y", "Z", "a", "b", "c", "d", "e", "f",
      "g", "h", "i", "j", "k", "l", "m", "n", "o", "p", "q", "r", "s", "t", "u", "v",
      "w", "x", "y", "z", "0", "1", "2", "3", "4", "5", "6", "7", "8", "9", "+", "/">>

B64Char(k) == B64Alphabet[k + 1]

\* btoa: base64 of a binary string, given as the sequence of its code units.
RECURSIVE btoa(_)
btoa(codes) ==
    LET n == Len(codes)
    IN  IF n = 0 THEN <<>>
        ELSE IF n = 1 THEN
            <<B64Char(codes[1] \div 4), B64Char((codes[1] % 4) * 16), "=", "=">>
        ELSE IF n = 2 THEN
            <<B64Char(codes[1] \div 4),
              B64Char((codes[1] % 4) * 16 + codes[2] \div 16),
              B64Char((codes[2] % 16) * 4), "=">>
        ELSE
            <<B64Char(codes[1] \div 4),
              B64Char((codes[1] % 4) * 16 + codes[2] \div 16),
              B64Char((codes[2] % 16) * 4 + codes[3] \div 64),
              B64Char(codes[3] % 64)>> \o btoa(SubSeq(codes, 4, n))

\* Mutant: the byte is cut to seven bits.
FromCharCode7Bit(byte) == byte % 128

\* String.fromCharCode(byte): the code unit of the one-character string.
FromCharCode(byte) == byte % 65536

\* index.ts:131-134  new Uint8Array(buf).reduce((data, byte) => data + String.fromCharCode(byte), '')
BinaryString(bytes) == [k \in 1..Len(bytes) |-> FromCharCode(bytes[k])]

\* index.ts:140  `data:application/pdf;base64,${pdfBase64}`
DataUrl(pdfBase64) == [prefix |-> "data:application/pdf;base64,", base64 |-> pdfBase64]

\* Mutant: the body is sent after it has been consumed.
BinaryResponseConsumed(pdfArrayBuffer) == Response(BytesBody(<<>>), 200, pdfHeaders)

\* index.ts:116-126
BinaryResponse(pdfArrayBuffer) == Response(BytesBody(pdfArrayBuffer), 200, pdfHeaders)

\* index.ts:130-147
JsonSuccessResponse(pdfArrayBuffer) ==
    Response(
        JsonBody([success |-> TRUE,
                  pdfUrl |-> DataUrl(btoa(BinaryString(pdfArrayBuffer))),
                  message |-> "PDF compiled successfully"]),
        200, jsonHeaders)

\* ------------------------------------------------------- the handler's tests

\* Mutant: the method is compared in the wrong case.
IsPreflightLowerCase(method) == method = "options"

\* index.ts:14  req.method === 'OPTIONS'
IsPreflight(method) == method = "OPTIONS"

\* index.ts:23  format === 'binary' || acceptHeader === 'application/pdf'
\* (the header's value equals 'application/pdf' when it is that one range alone)
ReturnBinary(format, acceptHeader) ==
    \/ format = "binary"
    \/ acceptHeader.present /\ acceptHeader.ranges = <<"application/pdf">>

\* Mutant: the key is compared only when a secret is configured.
KeyRejectedIfConfigured(apiKey, expected) ==
    /\ apiKey # NULL
    /\ apiKey # ""
    /\ expected # UNDEFINED
    /\ apiKey # expected

\* Mutant: the key is compared without the test that one was sent.
KeyRejectedUnlessEqual(apiKey, expected) == apiKey # expected

\* index.ts:30  apiKey && apiKey !== expectedApiKey
KeyRejected(apiKey, expected) ==
    /\ apiKey # NULL
    /\ apiKey # ""
    /\ apiKey # expected

\* index.ts:44  await req.json() and the destructuring of { latex }: either throws
\* (the body is not JSON; null has no properties) or yields the latex property.
Threw(message) == [threw |-> TRUE, message |-> message]
Parsed(v) == [threw |-> FALSE, latex |-> v]
ParseBody(body) ==
    IF body.kind = "text" THEN Threw("Unexpected token in JSON")
    ELSE IF body.value.t = "null" THEN Threw("Cannot destructure property 'latex'")
    ELSE IF body.value.t = "object" /\ "latex" \in DOMAIN body.value
         THEN Parsed(body.value.latex)
    ELSE Parsed(JUndefined)

\* index.ts:46  !latex || typeof latex !== 'string'
LatexMissing(latex) == ~Truthy(latex) \/ TypeOf(latex) # "string"

\* Mutant: the limit is off by one.
LatexTooLargeOffByOne(latex) == StrLen(latex.s) > MaxLatexLength + 1

\* Mutant: the limit itself is refused.
LatexTooLargeInclusive(latex) == StrLen(latex.s) >= MaxLatexLength

\* index.ts:57  latex.length > 100000
LatexTooLarge(latex) == StrLen(latex.s) > MaxLatexLength

\* index.ts:70-87  the multipart POST sent to the compiler.
FetchCall(latex) ==
    [url |-> "https://texlive.net/cgi-bin/latexcgi",
     method |-> "POST",
     redirect |-> "follow",
     headers |-> ("Accept" :> "application/pdf"),
     body |-> [filecontents |-> [content |-> BlobBytes(latex.s), type |-> "text/plain",
                                 filename |-> "document.tex"],
               filename |-> "document.tex",
               engine |-> "pdflatex",
               return |-> "pdf"]]

\* index.ts:225-240  the GET sent to the compiler by the second handler.
FetchCallGet(latex) ==
    [url |-> "https://latexonline.cc/compile",
     query |-> UrlQuery(UrlSearchParamsToString(latex.s)),
     method |-> "GET"]

\* part_000:12-40  the document the editor starts with: a backslash, then (in
\* the compact form) as many characters as follow it.
DEFAULT_LATEX == Str(<<"\\">>, DefaultLength - 1)

\* ------------------------------------------------------------------- state

\* Handler instances the platform runs; those that serve requests one at a time.
Handlers == {1, 2}
Serial == {1}

NoRequest == [method |-> NULL]
NoResponse == [status |-> 0]

VARIABLES
    expectedApiKey,   \* Deno.env.get('LATEX_API_KEY')
    pc,               \* where each handler instance is
    req,              \* the request it is handling
    returnBinary,     \* index.ts:23
    latex,            \* index.ts:44
    compileResponse,  \* index.ts:80, what fetch settled with
    resp,             \* the Response the handler returned
    keyChecked,       \* whether x-api-key was compared (index.ts:30)
    bodyRead,         \* whether req.json() was awaited (index.ts:44)
    calls,            \* the fetch calls made for the request, in order
    forwarded,        \* in a burst: how many requests with the key were forwarded
    uiLatex,          \* part_000:43, the component's latex
    isCompiling,      \* part_000:44
    error,            \* part_000:45
    success,          \* part_000:46
    pdfUrl,           \* part_000:47
    pending           \* the invocations of handleCompile that have not finished

\* The state of the browser component.
uiVars == <<uiLatex, isCompiling, error, success, pdfUrl, pending>>

vars ==
    <<expectedApiKey, pc, req, returnBinary, latex, compileResponse, resp,
      keyChecked, bodyRead, calls, forwarded, uiVars>>

Init ==
    /\ expectedApiKey \in Secrets
    /\ pc = [i \in Handlers |-> "idle"]
    /\ req = [i \in Handlers |-> NoRequest]
    /\ returnBinary = [i \in Handlers |-> FALSE]
    /\ latex = [i \in Handlers |-> JUndefined]
    /\ compileResponse = [i \in Handlers |-> NoFetch]
    /\ resp = [i \in Handlers |-> NoResponse]
    /\ keyChecked = [i \in Handlers |-> FALSE]
    /\ bodyRead = [i \in Handlers |-> FALSE]
    /\ calls = [i \in Handlers |-> <<>>]
    /\ forwarded = 0
    /\ uiLatex = DEFAULT_LATEX
    /\ isCompiling = FALSE
    /\ error = JNull
    /\ success = FALSE
    /\ pdfUrl = JNull
    /\ pending = {}

\* Mutant: the response is kept in a variable of the module that every running
\* call of the handler shares.
ReturnShared(i, response) ==
    /\ resp' = [j \in Handlers |-> IF j = i \/ pc[j] = "done" THEN response ELSE resp[j]]
    /\ pc' = [pc EXCEPT ![i] = "done"]

\* The handler returns `response`.
Return(i, response) ==
    /\ resp' = [resp EXCEPT ![i] = response]
    /\ pc' = [pc EXCEPT ![i] = "done"]

\* ----------------------------------------------------------------- actions

\* serve() invokes the handler with a request of R.
Receive(i, R) ==
    /\ pc[i] = "idle"
    /\ \E r \in R : req' = [req EXCEPT ![i] = r]
    /\ pc' = [pc EXCEPT ![i] = "start"]
    /\ UNCHANGED <<expectedApiKey, returnBinary, latex, compileResponse, resp,
                   keyChecked, bodyRead, calls>>

\* index.ts:14-16
Preflight(i) ==
    /\ pc[i] = "start"
    /\ IsPreflight(req[i].method)
    /\ Return(i, PreflightResponse)
    /\ UNCHANGED <<expectedApiKey, req, returnBinary, latex, compileResponse,
                   keyChecked, bodyRead, calls>>

\* Mutant: the body is parsed before the key is compared.
UnauthorizedAfterBody(i) ==
    /\ pc[i] = "start"
    /\ ~IsPreflight(req[i].method)
    /\ returnBinary' = [returnBinary EXCEPT ![i] = ReturnBinary(req[i].format, req[i].accept)]
    /\ keyChecked' = [keyChecked EXCEPT ![i] = TRUE]
    /\ bodyRead' = [bodyRead EXCEPT ![i] = TRUE]
    /\ KeyRejected(req[i].key, expectedApiKey)
    /\ Return(i, IF ParseBody(req[i].body).threw
                 THEN InternalErrorResponse(ParseBody(req[i].body).message)
                 ELSE UnauthorizedResponse)
    /\ UNCHANGED <<expectedApiKey, req, latex, compileResponse, calls>>

\* index.ts:18-38, the key is rejected
Unauthorized(i) ==
    /\ pc[i] = "start"
    /\ ~IsPreflight(req[i].method)
    /\ returnBinary' = [returnBinary EXCEPT ![i] = ReturnBinary(req[i].format, req[i].accept)]
    /\ keyChecked' = [keyChecked EXCEPT ![i] = TRUE]
    /\ KeyRejected(req[i].key, expectedApiKey)
    /\ Return(i, UnauthorizedResponse)
    /\ UNCHANGED <<expectedApiKey, req, latex, compileResponse, bodyRead, calls>>

\* index.ts:18-44, the key is absent or right: the handler awaits req.json()
Authenticated(i) ==
    /\ pc[i] = "start"
    /\ ~IsPreflight(req[i].method)
    /\ returnBinary' = [returnBinary EXCEPT ![i] = ReturnBinary(req[i].format, req[i].accept)]
    /\ keyChecked' = [keyChecked EXCEPT ![i] = TRUE]
    /\ ~KeyRejected(req[i].key, expectedApiKey)
    /\ pc' = [pc EXCEPT ![i] = "json"]
    /\ UNCHANGED <<expectedApiKey, req, latex, compileResponse, resp, bodyRead, calls>>

\* index.ts:44 throws; index.ts:149-161 answers
BodyThrows(i) ==
    /\ pc[i] = "json"
    /\ bodyRead' = [bodyRead EXCEPT ![i] = TRUE]
    /\ ParseBody(req[i].body).threw
    /\ Return(i, InternalErrorResponse(ParseBody(req[i].body).message))
    /\ UNCHANGED <<expectedApiKey, req, returnBinary, latex, compileResponse,
                   keyChecked, calls>>

\* index.ts:44-54
LatexRequired(i) ==
    /\ pc[i] = "json"
    /\ bodyRead' = [bodyRead EXCEPT ![i] = TRUE]
    /\ ~ParseBody(req[i].body).threw
    /\ latex' = [latex EXCEPT ![i] = ParseBody(req[i].body).latex]
    /\ LatexMissing(latex'[i])
    /\ Return(i, LatexRequiredResponse)
    /\ UNCHANGED <<expectedApiKey, req, returnBinary, compileResponse, keyChecked, calls>>

\* index.ts:44-65
TooLarge(i) ==
    /\ pc[i] = "json"
    /\ bodyRead' = [bodyRead EXCEPT ![i] = TRUE]
    /\ ~ParseBody(req[i].body).threw
    /\ latex' = [latex EXCEPT ![i] = ParseBody(req[i].body).latex]
    /\ ~LatexMissing(latex'[i])
    /\ LatexTooLarge(latex'[i])
    /\ Return(i, TooLargeResponse)
    /\ UNCHANGED <<expectedApiKey, req, returnBinary, compileResponse, keyChecked, calls>>

\* Mutant: fetch is called but not awaited, and the handler goes on with the
\* pending promise.
ForwardNotAwaited(i) ==
    /\ pc[i] = "json"
    /\ bodyRead' = [bodyRead EXCEPT ![i] = TRUE]
    /\ ~ParseBody(req[i].body).threw
    /\ latex' = [latex EXCEPT ![i] = ParseBody(req[i].body).latex]
    /\ ~LatexMissing(latex'[i])
    /\ ~LatexTooLarge(latex'[i])
    /\ calls' = [calls EXCEPT ![i] = Append(@, FetchCall(latex'[i]))]
    /\ Return(i, InternalErrorResponse("compileResponse.text is not a function"))
    /\ UNCHANGED <<expectedApiKey, req, returnBinary, compileResponse, keyChecked>>

\* index.ts:44-87, the handler calls fetch and awaits it
Forward(i) ==
    /\ pc[i] = "json"
    /\ bodyRead' = [bodyRead EXCEPT ![i] = TRUE]
    /\ ~ParseBody(req[i].body).threw
    /\ latex' = [latex EXCEPT ![i] = ParseBody(req[i].body).latex]
    /\ ~LatexMissing(latex'[i])
    /\ ~LatexTooLarge(latex'[i])
    /\ calls' = [calls EXCEPT ![i] = Append(@, FetchCall(latex'[i]))]
    /\ pc' = [pc EXCEPT ![i] = "fetch"]
    /\ UNCHANGED <<expectedApiKey, req, returnBinary, compileResponse, resp, keyChecked>>

\* Mutant: a rejected fetch is answered as a compilation failure.
FetchRejectsAs400(i) ==
    /\ pc[i] = "fetch"
    /\ compileResponse' = [compileResponse EXCEPT ![i] = FetchReject]
    /\ Return(i, CompilationFailedResponse(Str(<<>>, 0)))
    /\ UNCHANGED <<expectedApiKey, req, returnBinary, latex, keyChecked, bodyRead, calls>>

\* Mutant: a rejected fetch is tried again.
FetchRejectsRetry(i) ==
    /\ pc[i] = "fetch"
    /\ Len(calls[i]) < 3
    /\ calls' = [calls EXCEPT ![i] = Append(@, FetchCall(latex[i]))]
    /\ UNCHANGED <<expectedApiKey, pc, req, returnBinary, latex, compileResponse, resp,
                   keyChecked, bodyRead>>

\* index.ts:80 rejects (the compiler cannot be reached); index.ts:149-161 answers
FetchRejects(i) ==
    /\ pc[i] = "fetch"
    /\ compileResponse' = [compileResponse EXCEPT ![i] = FetchReject]
    /\ Return(i, InternalErrorResponse("error sending request"))
    /\ UNCHANGED <<expectedApiKey, req, returnBinary, latex, keyChecked, bodyRead, calls>>

\* index.ts:80-89 and 106: fetch resolves with a response of O; the handler
\* awaits text() when it is not ok and blob() when it is
FetchResolves(i, O) ==
    /\ pc[i] = "fetch"
    /\ \E o \in O :
        /\ o.kind = "response"
        /\ compileResponse' = [compileResponse EXCEPT ![i] = o]
        /\ pc' = [pc EXCEPT ![i] = IF Ok(o.status) THEN "blob" ELSE "text"]
    /\ UNCHANGED <<expectedApiKey, req, returnBinary, latex, resp, keyChecked,
                   bodyRead, calls>>

\* index.ts:90-102
CompilationFailed(i) ==
    /\ pc[i] = "text"
    /\ compileResponse[i].complete
    /\ Return(i, CompilationFailedResponse(compileResponse[i].text))
    /\ UNCHANGED <<expectedApiKey, req, returnBinary, latex, compileResponse,
                   keyChecked, bodyRead, calls>>

\* index.ts:90 rejects; index.ts:149-161 answers
TextThrows(i) ==
    /\ pc[i] = "text"
    /\ ~compileResponse[i].complete
    /\ Return(i, InternalErrorResponse("error reading a body from connection"))
    /\ UNCHANGED <<expectedApiKey, req, returnBinary, latex, compileResponse,
                   keyChecked, bodyRead, calls>>

\* index.ts:106-147
Success(i) ==
    /\ pc[i] = "blob"
    /\ compileResponse[i].complete
    /\ Return(i, IF returnBinary[i]
                 THEN BinaryResponse(compileResponse[i].bytes)
                 ELSE JsonSuccessResponse(compileResponse[i].bytes))
    /\ UNCHANGED <<expectedApiKey, req, returnBinary, latex, compileResponse,
                   keyChecked, bodyRead, calls>>

\* index.ts:106 rejects; index.ts:149-161 answers
BlobThrows(i) ==
    /\ pc[i] = "blob"
    /\ ~compileResponse[i].complete
    /\ Return(i, InternalErrorResponse("error reading a body from connection"))
    /\ UNCHANGED <<expectedApiKey, req, returnBinary, latex, compileResponse,
                   keyChecked, bodyRead, calls>>

\* index.ts:182-197, second handler: the key is rejected.  There is no format
\* negotiation.
Unauthorized2(i) ==
    /\ pc[i] = "start"
    /\ ~IsPreflight(req[i].method)
    /\ keyChecked' = [keyChecked EXCEPT ![i] = TRUE]
    /\ KeyRejected(req[i].key, expectedApiKey)
    /\ Return(i, UnauthorizedResponse)
    /\ UNCHANGED <<expectedApiKey, req, returnBinary, latex, compileResponse, bodyRead,
                   calls>>

\* index.ts:182-203, second handler: the handler awaits req.json()
Authenticated2(i) ==
    /\ pc[i] = "start"
    /\ ~IsPreflight(req[i].method)
    /\ keyChecked' = [keyChecked EXCEPT ![i] = TRUE]
    /\ ~KeyRejected(req[i].key, expectedApiKey)
    /\ pc' = [pc EXCEPT ![i] = "json"]
    /\ UNCHANGED <<expectedApiKey, req, returnBinary, latex, compileResponse, resp,
                   bodyRead, calls>>

\* index.ts:203-240, second handler: the handler calls fetch with the GET URL
\* and awaits it
ForwardGet(i) ==
    /\ pc[i] = "json"
    /\ bodyRead' = [bodyRead EXCEPT ![i] = TRUE]
    /\ ~ParseBody(req[i].body).threw
    /\ latex' = [latex EXCEPT ![i] = ParseBody(req[i].body).latex]
    /\ ~LatexMissing(latex'[i])
    /\ ~LatexTooLarge(latex'[i])
    /\ calls' = [calls EXCEPT ![i] = Append(@, FetchCallGet(latex'[i]))]
    /\ pc' = [pc EXCEPT ![i] = "fetch"]
    /\ UNCHANGED <<expectedApiKey, req, returnBinary, compileResponse, resp, keyChecked>>

\* index.ts:258-281, second handler: the success is always the JSON one
SuccessJson(i) ==
    /\ pc[i] = "blob"
    /\ compileResponse[i].complete
    /\ Return(i, JsonSuccessResponse(compileResponse[i].bytes))
    /\ UNCHANGED <<expectedApiKey, req, returnBinary, latex, compileResponse,
                   keyChecked, bodyRead, calls>>

\* The response has been sent; the instance is free for the next request and
\* every local of the finished call is gone.
Finish(i) ==
    /\ pc[i] = "done"
    /\ pc' = [pc EXCEPT ![i] = "idle"]
    /\ req' = [req EXCEPT ![i] = NoRequest]
    /\ returnBinary' = [returnBinary EXCEPT ![i] = FALSE]
    /\ latex' = [latex EXCEPT ![i] = JUndefined]
    /\ compileResponse' = [compileResponse EXCEPT ![i] = NoFetch]
    /\ resp' = [resp EXCEPT ![i] = NoResponse]
    /\ keyChecked' = [keyChecked EXCEPT ![i] = FALSE]
    /\ bodyRead' = [bodyRead EXCEPT ![i] = FALSE]
    /\ calls' = [calls EXCEPT ![i] = <<>>]
    /\ UNCHANGED expectedApiKey

\* Requests are served one at a time.
Next ==
    \E i \in Serial :
        \/ Receive(i, Requests) /\ UNCHANGED <<forwarded, uiVars>>
        \/ Preflight(i) /\ UNCHANGED <<forwarded, uiVars>>
        \/ Unauthorized(i) /\ UNCHANGED <<forwarded, uiVars>>
        \/ Authenticated(i) /\ UNCHANGED <<forwarded, uiVars>>
        \/ BodyThrows(i) /\ UNCHANGED <<forwarded, uiVars>>
        \/ LatexRequired(i) /\ UNCHANGED <<forwarded, uiVars>>
        \/ TooLarge(i) /\ UNCHANGED <<forwarded, uiVars>>
        \/ Forward(i) /\ UNCHANGED <<forwarded, uiVars>>
        \/ FetchRejects(i) /\ UNCHANGED <<forwarded, uiVars>>
        \/ FetchResolves(i, FetchOutcomes) /\ UNCHANGED <<forwarded, uiVars>>
        \/ CompilationFailed(i) /\ UNCHANGED <<forwarded, uiVars>>
        \/ TextThrows(i) /\ UNCHANGED <<forwarded, uiVars>>
        \/ Success(i) /\ UNCHANGED <<forwarded, uiVars>>
        \/ BlobThrows(i) /\ UNCHANGED <<forwarded, uiVars>>
        \/ Finish(i) /\ UNCHANGED <<forwarded, uiVars>>

Spec == Init /\ [][Next]_vars

\* ------------------------------------------------ a burst of requests

\* A smaller set of requests and of compiler responses that still takes every
\* path of the handler.
FewBodies ==
    {BodyText, BodyJson(JObjEmpty),
     BodyJson(JObjLatex(JStr(Str(<<"a">>, 0)))),
     BodyJson(JObjLatex(JStr(Str(<<>>, MaxLatexLength + 1))))}
FewRequests ==
    [method : Methods, key : ApiKeys, format : {NULL}, accept : {NoAccept}, body : FewBodies]
FewOutcomes ==
    {FetchReject,
     FetchResponse(200, PdfMagic, EmptyStr, TRUE),
     FetchResponse(400, <<>>, Str(<<"!">>, 0), TRUE),
     FetchResponse(200, <<>>, EmptyStr, FALSE),
     FetchResponse(400, <<>>, EmptyStr, FALSE)}

\* Requests arrive one after the other within one rate window; `forwarded`
\* counts those carrying the key SecretValue that were passed to the compiler.
Counted(i) ==
    /\ forwarded < MaxBurst
    /\ forwarded' = IF req[i].key = SecretValue THEN forwarded + 1 ELSE forwarded

NextBurst ==
    \E i \in Serial :
        \/ Receive(i, FewRequests) /\ UNCHANGED <<forwarded, uiVars>>
        \/ Preflight(i) /\ UNCHANGED <<forwarded, uiVars>>
        \/ Unauthorized(i) /\ UNCHANGED <<forwarded, uiVars>>
        \/ Authenticated(i) /\ UNCHANGED <<forwarded, uiVars>>
        \/ BodyThrows(i) /\ UNCHANGED <<forwarded, uiVars>>
        \/ LatexRequired(i) /\ UNCHANGED <<forwarded, uiVars>>
        \/ TooLarge(i) /\ UNCHANGED <<forwarded, uiVars>>
        \/ Forward(i) /\ Counted(i) /\ UNCHANGED uiVars
        \/ FetchRejects(i) /\ UNCHANGED <<forwarded, uiVars>>
        \/ FetchResolves(i, FewOutcomes) /\ UNCHANGED <<forwarded, uiVars>>
        \/ CompilationFailed(i) /\ UNCHANGED <<forwarded, uiVars>>
        \/ TextThrows(i) /\ UNCHANGED <<forwarded, uiVars>>
        \/ Success(i) /\ UNCHANGED <<forwarded, uiVars>>
        \/ BlobThrows(i) /\ UNCHANGED <<forwarded, uiVars>>
        \/ Finish(i) /\ UNCHANGED <<forwarded, uiVars>>

SpecBurst == Init /\ [][NextBurst]_vars

\* ------------------------------------------------ the two forwarding paths

\* Sources over the characters special to LaTeX, to URLs and to the encodings.
SourceChars ==
    {"a", " ", "#", "$", "%", "&", "+", "=", "\\", "^", "_", "{", "}", "~", "<LF>",
     "<E9>", "<20AC>", "<D83D>", "<DE00>"}
SourceStrings ==
    {Str(h, 0) : h \in SeqsUpTo(SourceChars, MaxSource)}
        \cup {Str(<<"<D83D>">>, MaxLatexLength - 1), Str(<<"&">>, MaxLatexLength - 1)}
SourceRequests ==
    [method : Methods, key : {NULL, "guess"}, format : {NULL}, accept : {NoAccept},
     body : FewBodies]
        \cup [method : {"POST"}, key : {NULL}, format : {NULL},
              accept : {NoAccept}, body : {BodyJson(JObjLatex(JStr(s))) : s \in SourceStrings}]

\* The first handler of index.ts (lines 12-163, the multipart POST) runs as
\* instance 1 and the second (lines 176-297, the GET) as instance 2, one request
\* at a time.  Lines 203-224, 242-257 and 283-295 of the second are the code of
\* lines 44-65, 89-103 and 149-161 of the first.
NextForward ==
    \/ pc[2] = "idle" /\ Receive(1, SourceRequests) /\ UNCHANGED <<forwarded, uiVars>>
    \/ Preflight(1) /\ UNCHANGED <<forwarded, uiVars>>
    \/ Unauthorized(1) /\ UNCHANGED <<forwarded, uiVars>>
    \/ Authenticated(1) /\ UNCHANGED <<forwarded, uiVars>>
    \/ Forward(1) /\ UNCHANGED <<forwarded, uiVars>>
    \/ Success(1) /\ UNCHANGED <<forwarded, uiVars>>
    \/ pc[1] = "idle" /\ Receive(2, SourceRequests) /\ UNCHANGED <<forwarded, uiVars>>
    \/ Preflight(2) /\ UNCHANGED <<forwarded, uiVars>>
    \/ Unauthorized2(2) /\ UNCHANGED <<forwarded, uiVars>>
    \/ Authenticated2(2) /\ UNCHANGED <<forwarded, uiVars>>
    \/ ForwardGet(2) /\ UNCHANGED <<forwarded, uiVars>>
    \/ SuccessJson(2) /\ UNCHANGED <<forwarded, uiVars>>
    \/ \E i \in Handlers :
        \/ BodyThrows(i) /\ UNCHANGED <<forwarded, uiVars>>
        \/ LatexRequired(i) /\ UNCHANGED <<forwarded, uiVars>>
        \/ TooLarge(i) /\ UNCHANGED <<forwarded, uiVars>>
        \/ FetchRejects(i) /\ UNCHANGED <<forwarded, uiVars>>
        \/ FetchResolves(i, FewOutcomes) /\ UNCHANGED <<forwarded, uiVars>>
        \/ CompilationFailed(i) /\ UNCHANGED <<forwarded, uiVars>>
        \/ TextThrows(i) /\ UNCHANGED <<forwarded, uiVars>>
        \/ BlobThrows(i) /\ UNCHANGED <<forwarded, uiVars>>
        \/ Finish(i) /\ UNCHANGED <<forwarded, uiVars>>

SpecForward == Init /\ [][NextForward]_vars

\* --------------------------------------------------- concurrent requests

\* Requests that differ in key, format and latex, and compiler responses that
\* differ in their bytes and texts, so that one request's answer cannot pass for
\* another's.
ConcBodies ==
    {BodyText, BodyJson(JObjEmpty),
     BodyJson(JObjLatex(JStr(Str(<<"a">>, 0)))),
     BodyJson(JObjLatex(JStr(Str(<<"\\">>, 0)))),
     BodyJson(JObjLatex(JStr(Str(<<>>, MaxLatexLength + 1))))}
ConcRequests ==
    [method : Methods, key : {NULL, SecretValue, "guess"}, format : {NULL, "binary"},
     accept : {NoAccept}, body : ConcBodies]
ConcOutcomes ==
    {FetchReject,
     FetchResponse(200, PdfMagic, EmptyStr, TRUE),
     FetchResponse(200, PdfMagic \o <<45>>, EmptyStr, TRUE),
     FetchResponse(400, <<>>, Str(<<"!">>, 0), TRUE),
     FetchResponse(500, <<>>, EmptyStr, TRUE),
     FetchResponse(200, <<>>, EmptyStr, FALSE),
     FetchResponse(400, <<>>, EmptyStr, FALSE)}

\* The platform runs the handler for several requests at once; their steps
\* interleave at every await.
NextConc ==
    \E i \in Handlers :
        \/ Receive(i, ConcRequests) /\ UNCHANGED <<forwarded, uiVars>>
        \/ Preflight(i) /\ UNCHANGED <<forwarded, uiVars>>
        \/ Unauthorized(i) /\ UNCHANGED <<forwarded, uiVars>>
        \/ Authenticated(i) /\ UNCHANGED <<forwarded, uiVars>>
        \/ BodyThrows(i) /\ UNCHANGED <<forwarded, uiVars>>
        \/ LatexRequired(i) /\ UNCHANGED <<forwarded, uiVars>>
        \/ TooLarge(i) /\ UNCHANGED <<forwarded, uiVars>>
        \/ Forward(i) /\ UNCHANGED <<forwarded, uiVars>>
        \/ FetchRejects(i) /\ UNCHANGED <<forwarded, uiVars>>
        \/ FetchResolves(i, ConcOutcomes) /\ UNCHANGED <<forwarded, uiVars>>
        \/ CompilationFailed(i) /\ UNCHANGED <<forwarded, uiVars>>
        \/ TextThrows(i) /\ UNCHANGED <<forwarded, uiVars>>
        \/ Success(i) /\ UNCHANGED <<forwarded, uiVars>>
        \/ BlobThrows(i) /\ UNCHANGED <<forwarded, uiVars>>
        \/ Finish(i) /\ UNCHANGED <<forwarded, uiVars>>

SpecConc == Init /\ [][NextConc]_vars

\* -------------------------------------------------- the browser component

\* What the user types into the editor: nothing, blanks only, short sources, the
\* default document, and a source over the function's limit.
UiSources ==
    {EmptyStr, Str(<<" ">>, 0), Str(<<"<LF>", " ">>, 0), Str(<<"a">>, 0),
     Str(<<" ", "a">>, 0), DEFAULT_LATEX, Str(<<>>, MaxLatexLength + 1)}

\* part_000:153  !latex.trim(): the string has white space only.
Blank(s) == s.fill = 0 /\ \A k \in 1..Len(s.head) : s.head[k] \in {" ", "<LF>"}

\* Mutant: the button is disabled for a blank source only.
ButtonEnabledWhileCompiling == ~Blank(uiLatex)

\* part_000:153  disabled={isCompiling || !latex.trim()}
ButtonEnabled == ~(isCompiling \/ Blank(uiLatex))

\* A string state value (error is a string or null).
JText(m) == [t |-> "string", text |-> m]
\* An Error object.
JError(message) == [t |-> "error", message |-> message]

\* part_000:56-58  the request supabase.functions.invoke sends: a POST with the
\* JSON body { latex }, no x-api-key header and no format parameter; the
\* browser's fetch adds Accept: */*.
InvokeRequest(s) ==
    [method |-> "POST", key |-> NULL, format |-> NULL, accept |-> Accept(<<"*/*">>),
     body |-> BodyJson(JObjLatex(JStr(s)))]

\* What invoke resolves with when the request did not reach the function or
\* the response did not come back.
InvokeFetchError ==
    [data |-> JNull, error |-> JError("Failed to send a request to the Edge Function")]

\* part_000:56  what invoke resolves with for the function's response r.  A
\* 2xx JSON response is handed back as data.  For any other status, the client
\* library resolves with a FunctionsHttpError; its releases before 2.0 hand the
\* body back as data instead.  The build does not say which release is used.
InvokeResults(r) ==
    IF Ok(r.status)
    THEN {[data |-> r.body.json, error |-> JNull]}
    ELSE {[data |-> JNull, error |-> JError("Edge Function returned a non-2xx status code")],
          [data |-> r.body.json, error |-> JNull]}

\* part_000:78
ErrorMessage(err) == IF err.t = "error" THEN err.message ELSE "Failed to compile LaTeX"

\* part_000:49-58  a click on Generate PDF: handleCompile sets the four states
\* and calls invoke, whose request reaches instance i of the function.  The
\* updates are rendered before the browser handles another event.
HandleCompile(i) ==
    /\ ButtonEnabled
    /\ isCompiling' = TRUE
    /\ error' = JNull
    /\ success' = FALSE
    /\ pdfUrl' = JNull
    /\ Receive(i, {InvokeRequest(uiLatex)})
    /\ pending' = pending \cup {i}
    /\ UNCHANGED <<uiLatex, forwarded>>

\* part_000:49-58, and the request does not reach the function.
HandleCompileUnsent ==
    /\ ButtonEnabled
    /\ isCompiling' = TRUE
    /\ error' = JNull
    /\ success' = FALSE
    /\ pdfUrl' = JNull
    /\ pending' = pending \cup {0}
    /\ UNCHANGED <<expectedApiKey, pc, req, returnBinary, latex, compileResponse, resp,
                   keyChecked, bodyRead, calls, uiLatex, forwarded>>

\* part_000:145  onChange of the editor
SetLatex ==
    /\ uiLatex' \in UiSources
    /\ UNCHANGED <<expectedApiKey, pc, req, returnBinary, latex, compileResponse, resp,
                   keyChecked, bodyRead, calls, forwarded, isCompiling, error, success,
                   pdfUrl, pending>>

\* What invocation p can resolve with now.
Settled(p) ==
    IF p = 0 THEN {InvokeFetchError}
    ELSE IF pc[p] = "done" THEN InvokeResults(resp[p]) \cup {InvokeFetchError}
    ELSE {}

\* The rest of handleCompile runs for invocation p, whose response is consumed.
Resumed(p) ==
    /\ pending' = pending \ {p}
    /\ UNCHANGED <<expectedApiKey, pc, req, returnBinary, latex, compileResponse, resp,
                   keyChecked, bodyRead, calls, forwarded, uiLatex>>

\* part_000:60 and 77-87  invoke resolved with an error, which is thrown and
\* caught
CompileThrew(p) ==
    /\ p \in pending
    /\ \E res \in Settled(p) :
        /\ res.error # JNull
        /\ error' = JText(ErrorMessage(res.error))
    /\ isCompiling' = FALSE
    /\ Resumed(p)
    /\ UNCHANGED <<success, pdfUrl>>

\* part_000:62-68 and 85-87  the data has an error
CompileFailed(p) ==
    /\ p \in pending
    /\ \E res \in Settled(p) :
        /\ res.error = JNull
        /\ "error" \in DOMAIN res.data /\ res.data.error # ""
        /\ error' = JText(res.data.error)
    /\ isCompiling' = FALSE
    /\ Resumed(p)
    /\ UNCHANGED <<success, pdfUrl>>

\* part_000:69-76 and 85-87  the data has no error
CompileSucceeded(p) ==
    /\ p \in pending
    /\ \E res \in Settled(p) :
        /\ res.error = JNull
        /\ ~("error" \in DOMAIN res.data /\ res.data.error # "")
        /\ success' = TRUE
        /\ pdfUrl' = IF "pdfUrl" \in DOMAIN res.data
                     THEN [t |-> "string", url |-> res.data.pdfUrl]
                     ELSE JUndefined
    /\ isCompiling' = FALSE
    /\ Resumed(p)
    /\ UNCHANGED error

\* The component in the browser and the function it invokes.  invoke sends no
\* OPTIONS request and no x-api-key header, its body is always a JSON object,
\* and the button lets no blank source through: the function's steps for those
\* cases do not occur.  An instance is free again once its response has been
\* consumed.
NextUI ==
    \/ SetLatex
    \/ HandleCompileUnsent
    \/ \E i \in Handlers : HandleCompile(i)
    \/ \E p \in Handlers \cup {0} :
        \/ CompileThrew(p)
        \/ CompileFailed(p)
        \/ CompileSucceeded(p)
    \/ \E i \in Handlers :
        \/ Authenticated(i) /\ UNCHANGED <<forwarded, uiVars>>
        \/ TooLarge(i) /\ UNCHANGED <<forwarded, uiVars>>
        \/ Forward(i) /\ UNCHANGED <<forwarded, uiVars>>
        \/ FetchRejects(i) /\ UNCHANGED <<forwarded, uiVars>>
        \/ FetchResolves(i, FewOutcomes) /\ UNCHANGED <<forwarded, uiVars>>
        \/ CompilationFailed(i) /\ UNCHANGED <<forwarded, uiVars>>
        \/ TextThrows(i) /\ UNCHANGED <<forwarded, uiVars>>
        \/ Success(i) /\ UNCHANGED <<forwarded, uiVars>>
        \/ BlobThrows(i) /\ UNCHANGED <<forwarded, uiVars>>
        \/ i \notin pending /\ Finish(i) /\ UNCHANGED <<forwarded, uiVars>>

SpecUI == Init /\ [][NextUI]_vars

\* Once invoke has settled, the rest of handleCompile is a job of the event
\* loop, which runs it.
ResumeCompile ==
    \E p \in Handlers \cup {0} : CompileThrew(p) \/ CompileFailed(p) \/ CompileSucceeded(p)

SpecUIFair == SpecUI /\ WF_vars(ResumeCompile)

\* ------------------------------------------------------- shared vocabulary

Handling(i) == pc[i] # "idle"
Done(i) == pc[i] = "done"
NonPreflight(i) == Handling(i) /\ req[i].method # "OPTIONS"

\* The handler went past the key check without answering 401.
PassedAuth(i) == keyChecked[i] /\ ~(Done(i) /\ resp[i].status = 401)

\* The response is JSON { error: message } and nothing else.
IsErrorOnly(r, status, message) ==
    /\ r.status = status
    /\ r.body = [kind |-> "json", json |-> [error |-> message]]
    /\ r.headers["Content-Type"] = "application/json"

\* The request's latex field, when its body is a JSON object that has one.
HasLatex(r) ==
    /\ r.body.kind = "json"
    /\ r.body.value.t = "object"
    /\ "latex" \in DOMAIN r.body.value
HasLatexString(r) == HasLatex(r) /\ r.body.value.latex.t = "string"
LatexLength(r) == StrLen(r.body.value.latex.s)

\* ----------------------------------------------------------------- claims

\* C1: a non-preflight request whose x-api-key is non-empty and differs from the
\* configured secret is answered exactly 401 { error: "Unauthorized: Invalid API
\* key" }, and no outbound call is ever made for it, whatever its body and format.
C1_WrongKeyUnauthorized ==
    \A i \in Handlers :
        (NonPreflight(i) /\ req[i].key \notin {NULL, ""} /\ req[i].key # expectedApiKey)
            => /\ calls[i] = <<>>
               /\ pc[i] \in {"start", "done"}
               /\ Done(i) => IsErrorOnly(resp[i], 401, "Unauthorized: Invalid API key")

C1_Witness ==
    \E i \in Handlers :
        /\ Done(i)
        /\ req[i].method = "POST"
        /\ req[i].key = "guess"
        /\ req[i].format = "binary"
        /\ HasLatexString(req[i]) /\ LatexLength(req[i]) = 1
        /\ resp[i].status = 401

C3_KeyRequired ==
    \A i \in Handlers :
        /\ calls[i] # <<>> => req[i].key = expectedApiKey
        /\ (Done(i) /\ NonPreflight(i) /\ resp[i].status = 200) => req[i].key = expectedApiKey

\* C4: a request that passes authentication and whose latex field is a string
\* of more than 100,000 characters is answered 400 { error: "LaTeX document too
\* large (max 100KB)" }, and no outbound call is made for it.
C4_OversizedRejected ==
    \A i \in Handlers :
        (NonPreflight(i) /\ PassedAuth(i) /\ HasLatexString(req[i])
            /\ LatexLength(req[i]) > 100000)
            => /\ calls[i] = <<>>
               /\ pc[i] \in {"json", "done"}
               /\ Done(i) => IsErrorOnly(resp[i], 400, "LaTeX document too large (max 100KB)")

C4_Witness ==
    \E i \in Handlers :
        /\ Done(i) /\ NonPreflight(i) /\ PassedAuth(i)
        /\ HasLatexString(req[i]) /\ LatexLength(req[i]) = 100001
        /\ resp[i].status = 400

\* The body is one of the three malformed cases: not JSON, JSON without a latex
\* field, or a latex field that is not a string.
Malformed(r) ==
    \/ r.body.kind = "text"
    \/ r.body.kind = "json" /\ ~HasLatex(r)
    \/ HasLatex(r) /\ r.body.value.latex.t # "string"

\* C5: for a request that passes authentication, each malformed body (no latex
\* field, latex not a string, body not JSON) is answered 400 { error: "Invalid
\* request: latex field is required" }, and no outbound call is made.
C5_MalformedIs400 ==
    \A i \in Handlers :
        (Done(i) /\ NonPreflight(i) /\ PassedAuth(i) /\ Malformed(req[i]))
            => /\ IsErrorOnly(resp[i], 400, "Invalid request: latex field is required")
               /\ calls[i] = <<>>

\* C6: a request whose method is OPTIONS is answered 200 with an empty body and
\* the CORS headers, whatever its key, body and format; its key is not checked,
\* its body is not read and no outbound call is made.
C6_PreflightAlways200 ==
    \A i \in Handlers :
        (Handling(i) /\ req[i].method = "OPTIONS")
            => /\ ~keyChecked[i]
               /\ ~bodyRead[i]
               /\ calls[i] = <<>>
               /\ pc[i] \in {"start", "done"}
               /\ Done(i) =>
                    /\ resp[i].status = 200
                    /\ resp[i].body = [kind |-> "null"]
                    /\ DOMAIN resp[i].headers =
                         {"Access-Control-Allow-Origin", "Access-Control-Allow-Headers"}
                    /\ resp[i].headers["Access-Control-Allow-Origin"] = "*"
                    /\ \E k \in DOMAIN resp[i].headers["Access-Control-Allow-Headers"] :
                         resp[i].headers["Access-Control-Allow-Headers"][k] = "x-api-key"

C6_Witness ==
    \E i \in Handlers :
        /\ Done(i)
        /\ req[i].method = "OPTIONS"
        /\ req[i].key = "guess"
        /\ req[i].body = [kind |-> "text"]
        /\ req[i].format = "binary"
        /\ resp[i].status = 200

\* p is a prefix of s.
IsPrefix(p, s) ==
    /\ StrLen(p) <= StrLen(s)
    /\ \A k \in 1..StrLen(p) : CharAt(p, k) = CharAt(s, k)

\* The response is the compilation-failed JSON error for compiler text t.
IsCompilationFailed(r, t) ==
    /\ r.status = 400
    /\ r.headers["Content-Type"] = "application/json"
    /\ r.body.kind = "json"
    /\ DOMAIN r.body.json = {"error", "details"}
    /\ r.body.json.error = "LaTeX compilation failed. Please check your LaTeX syntax."
    /\ IsPrefix(r.body.json.details, t)
    /\ StrLen(r.body.json.details) = Min(500, StrLen(t))

\* C7 as stated: whenever the compiler's response does not indicate success, the
\* handler answers 400 with the compilation-failed message and the first
\* min(500, length) characters of the compiler's body, also when binary was asked.
C7_Original ==
    \A i \in Handlers :
        (Done(i) /\ compileResponse[i].kind = "response"
            /\ ~(compileResponse[i].status \in 200..299))
            => IsCompilationFailed(resp[i], compileResponse[i].text)

\* C7, amended: whenever the compiler's response does not indicate success and
\* its body is read to the end, the handler answers 400 with the compilation-
\* failed message and the first min(500, length) characters of that body, as
\* JSON, also when binary was asked.
C7_FailureRelayed ==
    \A i \in Handlers :
        (Done(i) /\ compileResponse[i].kind = "response"
            /\ ~(compileResponse[i].status \in 200..299)
            /\ compileResponse[i].complete)
            => IsCompilationFailed(resp[i], compileResponse[i].text)

C7_Witness ==
    \E i \in Handlers :
        /\ Done(i)
        /\ returnBinary[i]
        /\ compileResponse[i].kind = "response"
        /\ compileResponse[i].status = 500
        /\ compileResponse[i].complete
        /\ StrLen(compileResponse[i].text) = 502
        /\ StrLen(resp[i].body.json.details) = 500

\* Base64 decoding, as a client does it (atob).
B64Index(c) == CHOOSE k \in 0..63 : B64Alphabet[k + 1] = c

RECURSIVE Base64Decode(_)
Base64Decode(chars) ==
    IF Len(chars) = 0 THEN <<>>
    ELSE LET a == B64Index(chars[1])
             b == B64Index(chars[2])
         IN  IF chars[3] = "=" THEN <<a * 4 + b \div 16>>
             ELSE LET c == B64Index(chars[3])
                  IN  IF chars[4] = "="
                      THEN <<a * 4 + b \div 16, (b % 16) * 16 + c \div 4>>
                      ELSE <<a * 4 + b \div 16, (b % 16) * 16 + c \div 4,
                             (c % 4) * 64 + B64Index(chars[4])>>
                               \o Base64Decode(SubSeq(chars, 5, Len(chars)))

\* The handler answered a success.
Succeeded(i) == Done(i) /\ NonPreflight(i) /\ resp[i].status = 200
IsBinary(r) == r.body.kind = "bytes"
IsJsonSuccess(r) ==
    /\ r.body.kind = "json"
    /\ DOMAIN r.body.json = {"success", "pdfUrl", "message"}
    /\ r.body.json.success = TRUE
    /\ r.body.json.pdfUrl.prefix = "data:application/pdf;base64,"

\* The bytes a success response delivers.
Payload(r) == IF IsBinary(r) THEN r.body.bytes ELSE Base64Decode(r.body.json.pdfUrl.base64)

\* C8: for the same input and the same compiler bytes B, the base64 part of
\* pdfUrl in the JSON success response decodes to B and the body of the binary
\* success response is B: the response returned, and the response the other
\* format gives for the same B, carry the same bytes.
C8_FormatsRoundTrip ==
    \A i \in Handlers :
        Succeeded(i) =>
            LET B == compileResponse[i].bytes
                json == IF IsBinary(resp[i]) THEN JsonSuccessResponse(B) ELSE resp[i]
                binary == IF IsBinary(resp[i]) THEN resp[i] ELSE BinaryResponse(B)
            IN  /\ IsJsonSuccess(json)
                /\ IsBinary(binary)
                /\ Base64Decode(json.body.json.pdfUrl.base64) = B
                /\ binary.body.bytes = B

C8_Witness ==
    \E i \in Handlers :
        /\ Succeeded(i)
        /\ ~IsBinary(resp[i])
        /\ compileResponse[i].bytes = <<255, 128>>
        /\ Base64Decode(resp[i].body.json.pdfUrl.base64) = <<255, 128>>

\* C9: a successful request gets the binary response (raw bytes, Content-Type
\* application/pdf, Content-Disposition attachment; filename="document.pdf") if
\* and only if its query has format=binary or its Accept header contains
\* application/pdf, also among other media ranges; otherwise the JSON success.
C9_BinaryIffAcceptContains ==
    \A i \in Handlers :
        Succeeded(i) =>
            LET asked ==
                    \/ req[i].format = "binary"
                    \/ \E k \in DOMAIN req[i].accept.ranges :
                         req[i].accept.ranges[k] = "application/pdf"
            IN  /\ asked =>
                    /\ IsBinary(resp[i])
                    /\ resp[i].headers["Content-Type"] = "application/pdf"
                    /\ resp[i].headers["Content-Disposition"]
                         = "attachment; filename=\"document.pdf\""
                /\ ~asked => IsJsonSuccess(resp[i])

StartsWithPdf(bytes) == Len(bytes) >= 4 /\ SubSeq(bytes, 1, 4) = <<37, 80, 68, 70>>

\* C10 as stated: whenever the handler reports success, the payload it delivers
\* begins with the PDF magic bytes %PDF.
C10_Original ==
    \A i \in Handlers : Succeeded(i) => StartsWithPdf(Payload(resp[i]))

\* C10, amended: for a latex string of 1 to 100,000 characters for which the
\* compiler answers ok with a body that begins with %PDF and is read to the end,
\* the handler answers 200 and the decoded payload begins with %PDF; a success
\* is reported only for such a string and an ok compiler response, and its
\* payload begins with %PDF exactly when the compiler's body does.
C10_PdfRelayed ==
    \A i \in Handlers :
        /\ (Done(i) /\ compileResponse[i].kind = "response"
                /\ compileResponse[i].status \in 200..299
                /\ compileResponse[i].complete
                /\ StartsWithPdf(compileResponse[i].bytes))
            => (resp[i].status = 200 /\ StartsWithPdf(Payload(resp[i])))
        /\ Succeeded(i) =>
            /\ HasLatexString(req[i])
            /\ LatexLength(req[i]) \in 1..100000
            /\ compileResponse[i].kind = "response"
            /\ compileResponse[i].status \in 200..299
            /\ StartsWithPdf(Payload(resp[i])) <=> StartsWithPdf(compileResponse[i].bytes)

C10_Witness ==
    \E i \in Handlers :
        /\ Succeeded(i)
        /\ LatexLength(req[i]) = 100000
        /\ ~IsBinary(resp[i])
        /\ compileResponse[i].bytes = <<37, 80, 68, 70, 45>>
        /\ StartsWithPdf(Payload(resp[i]))

\* The value of a response header, NULL when the response has no such header.
Header(r, name) == IF name \in DOMAIN r.headers THEN r.headers[name] ELSE NULL

\* C11: every response to a non-preflight request carries
\* Access-Control-Allow-Origin: *; every response with a JSON body carries
\* Content-Type: application/json, and the binary success response alone carries
\* Content-Type: application/pdf.
C11_CorsAndContentType ==
    \A i \in Handlers :
        (Done(i) /\ NonPreflight(i))
            => /\ Header(resp[i], "Access-Control-Allow-Origin") = "*"
               /\ resp[i].body.kind \in {"json", "bytes"}
               /\ resp[i].body.kind = "json"
                    => Header(resp[i], "Content-Type") = "application/json"
               /\ Header(resp[i], "Content-Type") = "application/pdf"
                    <=> (resp[i].body.kind = "bytes" /\ resp[i].status = 200)

\* A 500 with a JSON body, and a binary success, both with the CORS header.
C11_Witness ==
    \E i \in Handlers :
        /\ Done(i) /\ NonPreflight(i)
        /\ resp[i].status = 500
        /\ Header(resp[i], "Access-Control-Allow-Origin") = "*"
        /\ Header(resp[i], "Content-Type") = "application/json"

\* The response is the catch block's: 500 { error: "Internal server error",
\* details: message }.
IsInternalError(r, message) ==
    /\ r.status = 500
    /\ Header(r, "Content-Type") = "application/json"
    /\ r.body = [kind |-> "json",
                 json |-> [error |-> "Internal server error",
                           details |-> [head |-> <<message>>, fill |-> 0]]]

\* fetch rejected: the compiler could not be reached.
Unreachable(i) == compileResponse[i].kind = "reject"

\* C12 as stated: when the outbound call raises a network error, the handler
\* answers 400 with the compilation-failure JSON error shape.
C12_Original ==
    \A i \in Handlers :
        (Done(i) /\ Unreachable(i))
            => /\ resp[i].status = 400
               /\ resp[i].body.kind = "json"
               /\ resp[i].body.json.error
                    = "LaTeX compilation failed. Please check your LaTeX syntax."

\* C12, amended: when the outbound call raises a network error, the handler
\* answers 500 { error: "Internal server error", details: the error's message },
\* not the 400 compilation-failure shape; one call was made and none follows.
C12_UnreachableIs500 ==
    \A i \in Handlers :
        (Done(i) /\ Unreachable(i))
            => /\ IsInternalError(resp[i], "error sending request")
               /\ Len(calls[i]) = 1

C12_Witness ==
    \E i \in Handlers : Done(i) /\ Unreachable(i) /\ resp[i].status = 500

\* The failure raised while the request of handler i was handled, "" when none:
\* the body does not parse, the call rejects, or the compiler's body breaks off.
Raised(i) ==
    IF ~bodyRead[i] THEN ""
    ELSE IF req[i].body.kind = "text" THEN "Unexpected token in JSON"
    ELSE IF req[i].body.value.t = "null" THEN "Cannot destructure property 'latex'"
    ELSE IF compileResponse[i].kind = "reject" THEN "error sending request"
    ELSE IF compileResponse[i].kind = "response" /\ ~compileResponse[i].complete
         THEN "error reading a body from connection"
    ELSE ""

\* The steps by which handler i goes on with the request it holds.
Continue(i) ==
    \/ Preflight(i) \/ Unauthorized(i) \/ Authenticated(i)
    \/ BodyThrows(i) \/ LatexRequired(i) \/ TooLarge(i) \/ Forward(i)
    \/ FetchRejects(i) \/ FetchResolves(i, FetchOutcomes)
    \/ CompilationFailed(i) \/ TextThrows(i) \/ Success(i) \/ BlobThrows(i)

\* C13: a failure raised while a non-preflight request is handled is answered
\* 500 { error: "Internal server error", details: the exception's message }; no
\* exception escapes: the handler holds a response exactly when it has returned,
\* a 500 is given only for a raised failure, and a handler that has not
\* returned can always take a step.
C13_FailuresAre500 ==
    \A i \in Handlers :
        /\ (Done(i) /\ Raised(i) # "") => IsInternalError(resp[i], Raised(i))
        /\ (Done(i) /\ resp[i].status = 500) => Raised(i) # ""
        /\ Done(i) <=> resp[i] # [status |-> 0]
        /\ (Handling(i) /\ ~Done(i)) => ENABLED Continue(i)

C13_Witness ==
    \E i \in Handlers :
        /\ Done(i)
        /\ compileResponse[i].kind = "response"
        /\ compileResponse[i].status = 200
        /\ ~compileResponse[i].complete
        /\ resp[i].status = 500

\* C14: for every request at most one outbound call is made and it is never
\* repeated: after the compiler has failed (non-success status or raised error)
\* there is still one call, and the failure is what the caller gets.
C14_SingleCall ==
    \A i \in Handlers :
        /\ Len(calls[i]) <= 1
        /\ compileResponse[i].kind # "none" => Len(calls[i]) = 1
        /\ (Done(i) /\ compileResponse[i].kind = "reject") => resp[i].status = 500
        /\ (Done(i) /\ compileResponse[i].kind = "response"
                /\ ~(compileResponse[i].status \in 200..299))
             => resp[i].status \in {400, 500}

C14_Witness ==
    \E i \in Handlers :
        /\ Done(i)
        /\ compileResponse[i].kind = "response"
        /\ compileResponse[i].status = 500
        /\ Len(calls[i]) = 1
        /\ resp[i].status = 400

\* The key of the request is one the key check refuses.
WrongKey(i) == req[i].key \notin {NULL, ""} /\ req[i].key # expectedApiKey

\* The body of the request does not yield a latex property at all.
Unparsable(r) == r.body.kind = "text" \/ r.body.value.t = "null"

\* C16: the checks run in the order preflight, authentication, body parse, size
\* check, forward, and the first failing one decides the response: a wrong key
\* is answered 401 whatever the body; the body is read only after the key check
\* has passed; the call is made only after authentication, parse and size check
\* have all passed.
C16_ChecksInOrder ==
    \A i \in Handlers :
        Handling(i) =>
            /\ keyChecked[i] => req[i].method # "OPTIONS"
            /\ bodyRead[i] => (keyChecked[i] /\ ~WrongKey(i))
            /\ calls[i] # <<>> =>
                 /\ keyChecked[i] /\ ~WrongKey(i)
                 /\ bodyRead[i]
                 /\ HasLatexString(req[i])
                 /\ LatexLength(req[i]) \in 1..100000
            /\ (Done(i) /\ NonPreflight(i)) =>
                 IF WrongKey(i) THEN resp[i].status = 401 /\ ~bodyRead[i]
                 ELSE IF Unparsable(req[i]) THEN resp[i].status = 500
                 ELSE IF ~HasLatexString(req[i]) \/ LatexLength(req[i]) = 0
                      THEN IsErrorOnly(resp[i], 400, "Invalid request: latex field is required")
                 ELSE IF LatexLength(req[i]) > 100000
                      THEN IsErrorOnly(resp[i], 400, "LaTeX document too large (max 100KB)")
                 ELSE calls[i] # <<>>

\* A wrong key with a body that is not JSON is answered 401, the body unread.
C16_Witness ==
    \E i \in Handlers :
        /\ Done(i) /\ NonPreflight(i)
        /\ WrongKey(i)
        /\ req[i].body.kind = "text"
        /\ resp[i].status = 401
        /\ ~bodyRead[i]

\* C17: for a request that has passed authentication and validation, no
\* response exists before its outbound call has completed or failed, nor while
\* the compiler's body is being read; the handler leaves the await only by the
\* call settling (it has no timeout of its own).
C17_ResponseAfterCall ==
    \A i \in Handlers :
        calls[i] # <<>> =>
            /\ compileResponse[i].kind = "none" => (pc[i] = "fetch" /\ resp[i] = [status |-> 0])
            /\ pc[i] \in {"fetch", "text", "blob"} => resp[i] = [status |-> 0]
            /\ Done(i) => compileResponse[i].kind \in {"reject", "response"}
            /\ pc[i] \in {"fetch", "text", "blob", "done"}

C17_Witness ==
    \E i \in Handlers :
        /\ Done(i)
        /\ calls[i] # <<>>
        /\ compileResponse[i].kind = "response"
        /\ compileResponse[i].status = 200
        /\ resp[i].status = 200

\* C19: the latex values that pass validation are exactly the strings of 1 to
\* 100,000 characters: length 100,000 is forwarded, length 100,001 is refused as
\* too large, and the empty string is refused with the 400 "latex field is
\* required" error and never forwarded.
C19_ValidLatexLengths ==
    \A i \in Handlers :
        (NonPreflight(i) /\ bodyRead[i] /\ HasLatex(req[i])) =>
            /\ calls[i] # <<>>
                 <=> (HasLatexString(req[i]) /\ LatexLength(req[i]) \in 1..100000)
            /\ (HasLatexString(req[i]) /\ LatexLength(req[i]) = 0)
                 => (Done(i) /\ IsErrorOnly(resp[i], 400,
                                            "Invalid request: latex field is required"))
            /\ (HasLatexString(req[i]) /\ LatexLength(req[i]) = 100001)
                 => (Done(i) /\ IsErrorOnly(resp[i], 400,
                                            "LaTeX document too large (max 100KB)"))

C19_Witness ==
    \E i \in Handlers :
        /\ NonPreflight(i) /\ bodyRead[i]
        /\ HasLatexString(req[i])
        /\ LatexLength(req[i]) = 100000
        /\ Len(calls[i]) = 1

\* C15: the API implements basic rate limiting: for a given API key there is a
\* limit (60 requests per window) on how many requests are served, so in a long
\* enough burst of valid requests with the same key some request is refused
\* instead of being forwarded to the compiler.
C15_RateLimited == forwarded <= RateLimit

\* The handler's answer as a function of the request r, the configured secret
\* and what the request's own fetch settled with (o, read only when a call is
\* made).
Handler(r, secret, o) ==
    LET parsed == ParseBody(r.body) IN
    IF IsPreflight(r.method) THEN PreflightResponse
    ELSE IF KeyRejected(r.key, secret) THEN UnauthorizedResponse
    ELSE IF parsed.threw THEN InternalErrorResponse(parsed.message)
    ELSE IF LatexMissing(parsed.latex) THEN LatexRequiredResponse
    ELSE IF LatexTooLarge(parsed.latex) THEN TooLargeResponse
    ELSE IF o.kind = "reject" THEN InternalErrorResponse("error sending request")
    ELSE IF ~o.complete THEN InternalErrorResponse("error reading a body from connection")
    ELSE IF ~Ok(o.status) THEN CompilationFailedResponse(o.text)
    ELSE IF ReturnBinary(r.format, r.accept) THEN BinaryResponse(o.bytes)
    ELSE JsonSuccessResponse(o.bytes)

\* What one running call of the handler holds.
Local(i) ==
    <<req[i], returnBinary[i], latex[i], compileResponse[i], resp[i], keyChecked[i],
      bodyRead[i], calls[i]>>

\* A response is that of its own request: it is the handler's answer to the
\* request, the secret and the reply to the request's own call, the call carried
\* the request's own latex, and a success or a compilation failure relays the
\* bytes or the text of that reply.
OwnResponse(i) ==
    /\ resp[i] = Handler(req[i], expectedApiKey, compileResponse[i])
    /\ \A k \in 1..Len(calls[i]) : calls[i][k] = FetchCall(ParseBody(req[i].body).latex)
    /\ Succeeded(i) => Payload(resp[i]) = compileResponse[i].bytes
    /\ (NonPreflight(i) /\ resp[i].status = 400 /\ Len(calls[i]) > 0)
            => IsCompilationFailed(resp[i], compileResponse[i].text)

\* A step of one call of the handler leaves every other call's state, and the
\* secret, as they were.
StepIsLocal ==
    /\ expectedApiKey' = expectedApiKey
    /\ \A j \in Handlers : pc'[j] = pc[j] => Local(j)' = Local(j)

\* C18: concurrent requests never interact: in every interleaving of requests
\* handled at the same time, each response is a function of its own request, the
\* secret and the compiler's reply to its own call only, relays the PDF or error
\* of its own request, and no step of one request writes state of another.
C18_NoInteraction ==
    /\ [](\A i \in Handlers : Done(i) => OwnResponse(i))
    /\ [][StepIsLocal]_vars

\* Two requests in progress at once got different PDFs, a third state of the
\* race being a success next to a compilation failure.
C18_Witness ==
    /\ Succeeded(1) /\ Succeeded(2)
    /\ req[1].body # req[2].body
    /\ Payload(resp[1]) # Payload(resp[2])
    /\ IsBinary(resp[1]) /\ IsJsonSuccess(resp[2])

\* ------------------------------------------- what the compiler receives

\* UTF-8 decoding: the code points of a byte sequence; a byte that does not
\* start a complete sequence reads as U+FFFD.
RECURSIVE Utf8Decode(_)
Utf8Decode(b) ==
    IF b = <<>> THEN <<>>
    ELSE IF b[1] < 128 THEN <<b[1]>> \o Utf8Decode(Tail(b))
    ELSE IF b[1] >= 192 /\ b[1] < 224 /\ Len(b) >= 2
    THEN <<(b[1] - 192) * 64 + (b[2] - 128)>> \o Utf8Decode(SubSeq(b, 3, Len(b)))
    ELSE IF b[1] >= 224 /\ b[1] < 240 /\ Len(b) >= 3
    THEN <<(b[1] - 224) * 4096 + (b[2] - 128) * 64 + (b[3] - 128)>>
            \o Utf8Decode(SubSeq(b, 4, Len(b)))
    ELSE IF b[1] >= 240 /\ Len(b) >= 4
    THEN <<(b[1] - 240) * 262144 + (b[2] - 128) * 4096 + (b[3] - 128) * 64 + (b[4] - 128)>>
            \o Utf8Decode(SubSeq(b, 5, Len(b)))
    ELSE <<65533>> \o Utf8Decode(Tail(b))

\* The UTF-16 code units of a sequence of code points.
RECURSIVE ToCodeUnits(_)
ToCodeUnits(points) ==
    IF points = <<>> THEN <<>>
    ELSE IF points[1] >= 65536
    THEN <<55296 + ((points[1] - 65536) \div 1024), 56320 + ((points[1] - 65536) % 1024)>>
            \o ToCodeUnits(Tail(points))
    ELSE <<points[1]>> \o ToCodeUnits(Tail(points))

\* The application/x-www-form-urlencoded parser on a value: + is a space and
\* %XX is the byte XX.
IsHex(c) == c \in (48..57) \cup (65..70) \cup (97..102)
HexValue(c) == IF c <= 57 THEN c - 48 ELSE IF c <= 70 THEN c - 55 ELSE c - 87
RECURSIVE FormDecode(_)
FormDecode(codes) ==
    IF codes = <<>> THEN <<>>
    ELSE IF codes[1] = 43 THEN <<32>> \o FormDecode(Tail(codes))
    ELSE IF codes[1] = 37 /\ Len(codes) >= 3 /\ IsHex(codes[2]) /\ IsHex(codes[3])
    THEN <<HexValue(codes[2]) * 16 + HexValue(codes[3])>>
            \o FormDecode(SubSeq(codes, 4, Len(codes)))
    ELSE <<codes[1]>> \o FormDecode(Tail(codes))

\* The pieces of codes between the occurrences of d.
RECURSIVE Split(_, _)
Split(codes, d) ==
    IF \A k \in 1..Len(codes) : codes[k] # d THEN <<codes>>
    ELSE LET k == CHOOSE k \in 1..Len(codes) :
                    codes[k] = d /\ \A m \in 1..(k - 1) : codes[m] # d
         IN  <<SubSeq(codes, 1, k - 1)>> \o Split(SubSeq(codes, k + 1, Len(codes)), d)

\* A LaTeX source as code units: those of `units`, then `fill` times "x", then
\* those of `rest`.
Source(units, fill, rest) == [present |-> TRUE, units |-> units, fill |-> fill, rest |-> rest]
NoSource == [present |-> FALSE, units |-> <<>>, fill |-> 0, rest |-> <<>>]

\* The latex string of the request of handler i.
RequestSource(i) ==
    LET s == ParseBody(req[i].body).latex.s IN Source(CodeUnits(s.head), s.fill, <<>>)

\* The content of the file document.tex of a multipart call, decoded.
MultipartSource(call) ==
    LET content == call.body.filecontents.content
    IN  Source(ToCodeUnits(Utf8Decode(content.bytes)), content.fill, <<>>)

\* The value of the first parameter named text of a query, decoded.  The fill
\* belongs to the last piece of the head, which goes on to the first & of the
\* tail.
QuerySource(q) ==
    LET segs == Split(q.head, 38)
        n == Len(segs)
        Named(seg) == Len(seg) >= 5 /\ SubSeq(seg, 1, 5) = AsciiText \o <<61>>
        Value(seg) == ToCodeUnits(Utf8Decode(FormDecode(SubSeq(seg, 6, Len(seg)))))
        hits == {k \in 1..n : Named(segs[k])}
        first == CHOOSE k \in hits : \A m \in hits : k <= m
    IN  IF hits = {} THEN NoSource
        ELSE IF first < n THEN Source(Value(segs[first]), 0, <<>>)
        ELSE Source(Value(segs[n]), q.fill,
                    ToCodeUnits(Utf8Decode(FormDecode(Split(q.tail, 38)[1]))))

\* The source that the first call of handler i hands to the compiler.
ForwardedSource(i) ==
    IF calls[i][1].method = "POST"
    THEN MultipartSource(calls[i][1])
    ELSE QuerySource(calls[i][1].query)

Called(i) == Len(calls[i]) > 0

\* A string without a surrogate outside a pair, and a string with U+FFFD in
\* place of each such surrogate.
WellFormed(units) == ToCodeUnits(ToUSVString(units)) = units
Scrubbed(src) == Source(ToCodeUnits(ToUSVString(src.units)), src.fill, src.rest)

\* C20 as stated: the source forwarded to the compiler is exactly the latex
\* string of the request, for every latex string and in both handlers.
C20_Original ==
    \A i \in Handlers : Called(i) => ForwardedSource(i) = RequestSource(i)

\* C20: the LaTeX source forwarded to the compiler is the latex string of the
\* request, unmodified, in both handlers (multipart POST and URL-encoded
\* GET): the characters # $ % & ~ _ ^ { } \ are not escaped and nothing else
\* is rewritten, for every latex string that is well-formed UTF-16; in a string
\* that is not, each surrogate outside a pair arrives as U+FFFD and the rest
\* is unmodified.
C20_SourceForwarded ==
    \A i \in Handlers :
        Called(i) =>
            /\ ForwardedSource(i) = Scrubbed(RequestSource(i))
            /\ WellFormed(RequestSource(i).units) => ForwardedSource(i) = RequestSource(i)

\* The GET handler forwarded a source made of a backslash and a percent sign.
C20_Witness ==
    /\ Called(2)
    /\ calls[2][1].method = "GET"
    /\ latex[2].s.head = <<"\\", "%">>
    /\ ForwardedSource(2) = Source(<<92, 37>>, 0, <<>>)

\* ------------------------------------------------- the component's states

\* error, success and pdfUrl as handleCompile clears them.
Cleared == error = JNull /\ ~success /\ pdfUrl = JNull
\* error is set, success is false and pdfUrl is null.
ErrorOutcome == error.t = "string" /\ error.text # "" /\ ~success /\ pdfUrl = JNull
\* success is true, pdfUrl is set and error is null.
PdfOutcome == success /\ pdfUrl.t = "string" /\ error = JNull

\* An invocation has settled and the rest of handleCompile has not run yet.
InvokeSettled == \E p \in pending : Settled(p) # {}

\* While an invocation is in flight isCompiling is true, the three states are
\* cleared, the button is disabled and there is no other invocation; otherwise
\* the states are as cleared or show one of the two outcomes.
CompileStates ==
    /\ isCompiling <=> pending # {}
    /\ Cardinality(pending) <= 1
    /\ isCompiling => Cleared /\ ~ButtonEnabled
    /\ ~isCompiling => Cleared \/ ErrorOutcome \/ PdfOutcome
    /\ ~(ErrorOutcome /\ PdfOutcome)

\* An invocation starts with isCompiling true and the states cleared, and none
\* is in flight then; an invocation finishes with isCompiling false and exactly
\* one of the outcomes.
CompileSteps ==
    /\ (pending' # pending /\ pending \subseteq pending')
            => pending = {} /\ isCompiling' /\ Cleared'
    /\ (pending' # pending /\ pending' \subseteq pending)
            => ~isCompiling' /\ (ErrorOutcome' \/ PdfOutcome') /\ ~(ErrorOutcome' /\ PdfOutcome')

\* C21: handleCompile sets isCompiling to true and clears error, success and
\* pdfUrl before invoking the function, and resets isCompiling to false when
\* the invocation finishes, whether it returned a PDF, an error body, or threw;
\* then exactly one of the outcomes holds: error set with success false and
\* pdfUrl null, or success true with pdfUrl set and error null.  The button is
\* disabled while isCompiling is true, so no second invocation starts while one
\* is in flight.
C21_CompileLifecycle ==
    /\ []CompileStates
    /\ [][CompileSteps]_vars
    /\ InvokeSettled ~> ~isCompiling

\* An invocation of the default document has finished with the compiler's PDF.
C21_Witness ==
    /\ ~isCompiling
    /\ pending = {}
    /\ PdfOutcome
    /\ uiLatex = DEFAULT_LATEX
    /\ Base64Decode(pdfUrl.url.base64) = PdfMagic

====
